---- MODULE Spec2Model ----
(***************************************************************************)
(* A model of forge/blade/core/realm.py: the population ledger (Spawner)   *)
(* and the tick pipeline of the Realm (step, reset and their helpers).     *)
(*                                                                         *)
(* Python dictionaries keep insertion order, so every dictionary the code  *)
(* iterates over (decisions, an entity's action map, desciples, packets,   *)
(* the prioritized actions) is a sequence of entries with distinct keys.   *)
(* A call of the public API is one action; the caller then takes the       *)
(* result (Receive) before it calls again.                                 *)
(***************************************************************************)
EXTENDS Integers, Sequences, FiniteSets, TLC

\* ------------------------------------------------------------- bounds
MaxNENT == 2      \* config.NENT ranges over 1..MaxNENT
MaxNPOP == 2      \* config.NPOP ranges over 1..MaxNPOP
MaxTick == 3      \* ticks per run
MaxWork == 5      \* what the step calls of a run may cost together: a step call
                  \* costs 1 plus the size of its decisions
MaxCalls == 3     \* as MaxWork, where the Spawner is used directly as well: a
                  \* direct call of the Spawner costs 1

\* ------------------------------------------------------------- state
VARIABLES
  nEnt, nPop, popSz,   \* Spawner: config.NENT, config.NPOP, NENT // NPOP
  ents, pops,          \* Spawner: total count, population -> count
  desciples,           \* Realm: entity map, in insertion order
  tiles,               \* world.env.tiles: identifiers registered on the grid
  entID, tick,         \* Realm: identifier counter, tick counter
  worldSteps,          \* number of world / grid advances so far
  strHash,             \* hash(str(n)) of this process, as far as evaluated
  issued,              \* the identifiers Realm.spawn has returned, in order
  direct,              \* number of direct Spawner calls so far
  spent,               \* what the calls so far have cost
  phase,               \* "idle" | "returned": the caller's position
  op, decisions,       \* the call that returned last, and its argument
  pre,                 \* the realm as it was when that call started
  adm,                 \* the admission that call asked the Spawner for
  ret,                 \* what that call returned or raised
  log                  \* the events of that call, in order

vars == <<nEnt, nPop, popSz, ents, pops, desciples, tiles, entID, tick,
          worldSteps, strHash, issued, direct, spent, phase, op, decisions, pre, adm,
          ret, log>>

\* Python's None; every number the code handles here is >= 0.
None == -1

\* ------------------------------------------------------ action kinds
\* The action classes the decisions are keyed by, and their priority attribute.
Atns == {"Melee", "Range", "Move"}

Priority(atn) == IF atn = "Move" THEN 1 ELSE 0

\* ------------------------------------------------- ordered dictionaries
Has(d, k) == \E i \in 1..Len(d) : d[i].entID = k

At(d, k) == d[CHOOSE i \in 1..Len(d) : d[i].entID = k]

Keys(d) == {d[i].entID : i \in 1..Len(d)}

\* d[e.entID] = e : in place when the key exists, appended otherwise
DictSet(d, e) ==
  IF Has(d, e.entID)
  THEN [i \in 1..Len(d) |-> IF d[i].entID = e.entID THEN e ELSE d[i]]
  ELSE Append(d, e)

DictDel(d, k) == SelectSeq(d, LAMBDA e : e.entID # k)

\* defaultdict(int): reading a missing key inserts it with 0
Touch(p, k) == IF k \in DOMAIN p THEN p ELSE p @@ (k :> 0)

PopCount(p, k) == IF k \in DOMAIN p THEN p[k] ELSE 0

Del(p, k) == [x \in DOMAIN p \ {k} |-> p[x]]

\* ------------------------------------------------------------ entities
\* entity.Player(config, iden, pop, name, color)
Player(iden, pop) == [entID |-> iden, annID |-> pop, alive |-> TRUE]

\* ent.serial
Serial(ent) == <<ent.annID, ent.entID>>

\* class Packet; a stimulus is absent, the entity alone (stepEnts) or the
\* pair (world stimulus, entity) (getStims)
NoStim == [kind |-> "None", ent |-> None]

Packet(id) == [entID |-> id, stim |-> NoStim, reward |-> None, done |-> None]

Event(ev, id, pri, atn) == [ev |-> ev, ent |-> id, pri |-> pri, atn |-> atn]

\* ------------------------------------------------------------- Spawner
\* Spawner.spawn without the test of the population's own cap
SpawnerSpawn_NoPopCap(s, iden, pop) ==
  LET p1 == Touch(s.pops, pop) IN
  IF ~(p1[pop] <= popSz /\ s.ents <= nEnt)
  THEN [s EXCEPT !.pops = p1, !.err = "AssertionError in Spawner.spawn"]
  ELSE IF s.ents = nEnt THEN [s EXCEPT !.pops = p1]
  ELSE [s EXCEPT !.pops = [p1 EXCEPT ![pop] = @ + 1],
                 !.ents = @ + 1,
                 !.desciples = DictSet(@, Player(iden, pop)),
                 !.tiles = @ \cup {iden},
                 !.admitted = TRUE,
                 !.log = Append(@, Event("admit", iden, pop, ""))]

\* Spawner.spawn counting the entity in the total before the population's
\* cap is tested
SpawnerSpawn_CountsEarly(s, iden, pop) ==
  LET p1 == Touch(s.pops, pop) IN
  IF ~(p1[pop] <= popSz /\ s.ents <= nEnt)
  THEN [s EXCEPT !.pops = p1, !.err = "AssertionError in Spawner.spawn"]
  ELSE IF s.ents = nEnt THEN [s EXCEPT !.pops = p1]
  ELSE IF p1[pop] = popSz THEN [s EXCEPT !.pops = p1, !.ents = @ + 1]
  ELSE [s EXCEPT !.pops = [p1 EXCEPT ![pop] = @ + 1],
                 !.ents = @ + 1,
                 !.desciples = DictSet(@, Player(iden, pop)),
                 !.tiles = @ \cup {iden},
                 !.admitted = TRUE,
                 !.log = Append(@, Event("admit", iden, pop, ""))]

\* Spawner.spawn. Its "assert ent not in realm.desciples" looks the new Player
\* object up among the integer keys of the map; that never finds it, so the
\* assertion never fails
SpawnerSpawn(s, iden, pop) ==
  LET p1 == Touch(s.pops, pop) IN
  IF ~(p1[pop] <= popSz /\ s.ents <= nEnt)
  THEN [s EXCEPT !.pops = p1, !.err = "AssertionError in Spawner.spawn"]
  ELSE IF s.ents = nEnt THEN [s EXCEPT !.pops = p1]
  ELSE IF p1[pop] = popSz THEN [s EXCEPT !.pops = p1]
  ELSE [s EXCEPT !.pops = [p1 EXCEPT ![pop] = @ + 1],
                 !.ents = @ + 1,
                 !.desciples = DictSet(@, Player(iden, pop)),
                 !.tiles = @ \cup {iden},
                 !.admitted = TRUE,
                 !.log = Append(@, Event("admit", iden, pop, ""))]

\* Spawner.cull without its assertions
SpawnerCull_NoAssert(s, pop) ==
  LET p1 == Touch(s.pops, pop) IN
  [s EXCEPT !.pops = IF p1[pop] - 1 = 0 THEN Del(p1, pop)
                     ELSE [p1 EXCEPT ![pop] = @ - 1],
            !.ents = @ - 1]

SpawnerCull(s, pop) ==
  LET p1 == Touch(s.pops, pop) IN
  IF ~(p1[pop] >= 1 /\ s.ents >= 1)
  THEN [s EXCEPT !.pops = p1, !.err = "AssertionError in Spawner.cull"]
  ELSE [s EXCEPT !.pops = IF p1[pop] - 1 = 0 THEN Del(p1, pop)
                          ELSE [p1 EXCEPT ![pop] = @ - 1],
                 !.ents = @ - 1]

\* --------------------------------------------------------------- Realm
\* Realm.reward
reward(id) == 0

\* Realm.spawn that hands out the counter without advancing it
RealmSpawn_NoIncrement(s, h) ==
  [s |-> [s EXCEPT !.strHash = (s.entID :> h) @@ @,
                   !.issued = Append(@, s.entID + 1)],
   iden |-> s.entID + 1, pop |-> h % nPop, name |-> "Neural_"]

\* Realm.spawn; h is hash(str(self.entID)) as this process computes it
RealmSpawn(s, h) ==
  LET pop == h % nPop
      s1  == [s EXCEPT !.strHash = (s.entID :> h) @@ @, !.entID = @ + 1]
  IN  [s |-> [s1 EXCEPT !.issued = Append(@, s1.entID)],
       iden |-> s1.entID, pop |-> pop, name |-> "Neural_"]

\* the entities of d whose liveness flag turns false, as events
Deaths(d, doomed) ==
  LET hit == SelectSeq(d, LAMBDA e : e.alive /\ e.entID \in doomed)
  IN  [i \in 1..Len(hit) |-> Event("die", hit[i].entID, None, "")]

\* ent.step(world, actions): the entity's own update; it may die of it
EntStep(s, id, doomed) ==
  LET e == At(s.desciples, id) IN
  [s EXCEPT !.desciples = DictSet(@, [e EXCEPT !.alive = @ /\ id \notin doomed]),
            !.log = Append(@, Event("step", id, None, ""))
                      \o Deaths(<<e>>, doomed)]

\* ent.act(world, atnArgs): applying an action may kill any entity
EntAct(s, id, pri, atn, doomed) ==
  [s EXCEPT !.desciples = [i \in 1..Len(@) |->
                             [@[i] EXCEPT !.alive = @ /\ s.desciples[i].entID \notin doomed]],
            !.log = Append(@, Event("act", id, pri, atn))
                      \o Deaths(s.desciples, doomed)]

\* Realm.stepEnts, first loop: "Step all ents first"
RECURSIVE StepAll(_, _, _, _)
StepAll(s, dec, doomed, i) ==
  IF s.err # "" \/ i > Len(dec) THEN s
  ELSE IF ~Has(s.desciples, dec[i].entID) THEN [s EXCEPT !.err = "KeyError"]
  ELSE StepAll(EntStep(s, dec[i].entID, doomed), dec, doomed, i + 1)

\* the (entID, atn) pairs of decisions in the order the two nested loops of
\* prioritize visit them
RECURSIVE Flat(_, _, _)
Flat(dec, i, j) ==
  IF i > Len(dec) THEN <<>>
  ELSE IF j > Len(dec[i].atns) THEN Flat(dec, i + 1, 1)
  ELSE <<[entID |-> dec[i].entID, atn |-> dec[i].atns[j]]>> \o Flat(dec, i, j + 1)

\* actions[atn.priority][entID] = [atn, args]
PutAction(actions, e) ==
  LET p == Priority(e.atn) IN
  IF \E k \in 1..Len(actions) : actions[k].priority = p
  THEN [k \in 1..Len(actions) |->
          IF actions[k].priority = p
          THEN [actions[k] EXCEPT !.tups = DictSet(@, e)]
          ELSE actions[k]]
  ELSE Append(actions, [priority |-> p, tups |-> <<e>>])

RECURSIVE PutAll(_, _, _)
PutAll(actions, es, i) ==
  IF i > Len(es) THEN actions ELSE PutAll(PutAction(actions, es[i]), es, i + 1)

\* Realm.prioritize
prioritize(dec) == PutAll(<<>>, Flat(dec, 1, 1), 1)

\* Realm.act
RECURSIVE act(_, _, _, _, _)
act(s, actions, doomed, k, i) ==
  IF s.err # "" \/ k > Len(actions) THEN s
  ELSE IF i > Len(actions[k].tups) THEN act(s, actions, doomed, k + 1, 1)
  ELSE LET e == actions[k].tups[i] IN
       IF ~Has(s.desciples, e.entID) THEN [s EXCEPT !.err = "KeyError"]
       ELSE act(EntAct(s, e.entID, actions[k].priority, e.atn, doomed),
                actions, doomed, k, i + 1)

\* Realm.postmortem that finds every entity alive
postmortem_NeverDead(ent, dead) == dead

\* Realm.postmortem: the entity joins dead when its liveness flag is false
postmortem(ent, dead) == IF ~ent.alive THEN dead \cup {ent.entID} ELSE dead

\* the scan of Realm.stepEnts removing a dead entity as soon as it finds it
RECURSIVE Scan_CullsAtOnce(_, _, _)
Scan_CullsAtOnce(s, dec, i) ==
  IF s.err # "" \/ i > Len(dec) THEN s
  ELSE IF ~Has(s.desciples, dec[i].entID) THEN [s EXCEPT !.err = "KeyError"]
  ELSE LET ent  == At(s.desciples, dec[i].entID)
           dead == postmortem(ent, {})
           s1   == [s EXCEPT !.log = Append(@, Event("postmortem", ent.entID, None, ""))]
       IN  IF ent.entID \in dead
           THEN Scan_CullsAtOnce(
                  [SpawnerCull([s1 EXCEPT !.dones = @ \cup {Serial(ent)},
                                          !.tiles = @ \ dead,
                                          !.log = Append(@, Event("cull", ent.entID, None, ""))],
                               ent.annID)
                     EXCEPT !.desciples = DictDel(@, ent.entID)],
                  dec, i + 1)
           ELSE Scan_CullsAtOnce(
                  [s1 EXCEPT !.packets =
                     DictSet(@, [(IF Has(s.packets, ent.entID)
                                  THEN At(s.packets, ent.entID)
                                  ELSE Packet(ent.entID))
                                 EXCEPT !.reward = reward(ent.entID),
                                        !.stim = [kind |-> "ent", ent |-> ent.entID]])],
                  dec, i + 1)

\* Realm.stepEnts, the scan over decisions.keys()
RECURSIVE Scan(_, _, _)
Scan(s, dec, i) ==
  IF s.err # "" \/ i > Len(dec) THEN s
  ELSE IF ~Has(s.desciples, dec[i].entID) THEN [s EXCEPT !.err = "KeyError"]
  ELSE LET ent  == At(s.desciples, dec[i].entID)
           dead == postmortem(ent, s.dead)
           s1   == [s EXCEPT !.log = Append(@, Event("postmortem", ent.entID, None, ""))]
       IN  IF ent.entID \in dead
           THEN Scan([s1 EXCEPT !.dead = dead, !.dones = @ \cup {Serial(ent)}],
                     dec, i + 1)
           ELSE Scan([s1 EXCEPT !.packets =
                         DictSet(@, [(IF Has(s.packets, ent.entID)
                                      THEN At(s.packets, ent.entID)
                                      ELSE Packet(ent.entID))
                                     EXCEPT !.reward = reward(ent.entID),
                                            !.stim = [kind |-> "ent", ent |-> ent.entID]])],
                     dec, i + 1)

Min(S) == CHOOSE x \in S : \A y \in S : x <= y

\* Realm.cullDead that does not release the entity from the ledger
RECURSIVE cullDead_NoLedger(_, _)
cullDead_NoLedger(s, dead) ==
  IF s.err # "" \/ dead = {} THEN s
  ELSE LET id == Min(dead) IN
       IF ~Has(s.desciples, id) THEN [s EXCEPT !.err = "KeyError"]
       ELSE cullDead_NoLedger(
              [s EXCEPT !.tiles = @ \ {id},
                        !.log = Append(@, Event("cull", id, None, "")),
                        !.desciples = DictDel(@, id)],
              dead \ {id})

\* Realm.cullDead that leaves the dead in the entity map
RECURSIVE cullDead_KeepsEntity(_, _)
cullDead_KeepsEntity(s, dead) ==
  IF s.err # "" \/ dead = {} THEN s
  ELSE LET id == Min(dead) IN
       IF ~Has(s.desciples, id) THEN [s EXCEPT !.err = "KeyError"]
       ELSE LET ent == At(s.desciples, id)
                s1  == [s EXCEPT !.tiles = @ \ {id},
                                 !.log = Append(@, Event("cull", id, None, ""))]
                s2  == SpawnerCull(s1, ent.annID)
            IN  IF s2.err # "" THEN s2
                ELSE cullDead_KeepsEntity(s2, dead \ {id})

\* Realm.cullDead; a set of small integers is iterated in ascending order
RECURSIVE cullDead(_, _)
cullDead(s, dead) ==
  IF s.err # "" \/ dead = {} THEN s
  ELSE LET id == Min(dead) IN
       IF ~Has(s.desciples, id) THEN [s EXCEPT !.err = "KeyError"]
       ELSE LET ent == At(s.desciples, id)
                s1  == [s EXCEPT !.tiles = @ \ {id},
                                 !.log = Append(@, Event("cull", id, None, ""))]
                s2  == SpawnerCull(s1, ent.annID)
            IN  IF s2.err # "" THEN s2
                ELSE cullDead([s2 EXCEPT !.desciples = DictDel(@, id)], dead \ {id})

\* Realm.stepEnts applying the actions before the entities' own updates
stepEnts_ActFirst(s, dec, doomed) ==
  LET a == act(s, prioritize(dec), doomed, 1, 1)
      b == StepAll(a, dec, doomed, 1)
      c == Scan(b, dec, 1)
  IN  cullDead(c, c.dead)

\* Realm.stepEnts
stepEnts(s, dec, doomed) ==
  LET a == StepAll(s, dec, doomed, 1)
      b == act(a, prioritize(dec), doomed, 1, 1)
      c == Scan(b, dec, 1)
  IN  cullDead(c, c.dead)

\* Realm.stepEnv
stepEnv(s) ==
  IF s.err # "" THEN s
  ELSE [s EXCEPT !.worldSteps = @ + 1,
                 !.log = Append(@, Event("world", None, None, ""))]

\* Realm.getStims that observes only the entities that already have a packet
RECURSIVE getStims_PacketsOnly(_, _)
getStims_PacketsOnly(s, i) ==
  IF s.err # "" \/ i > Len(s.desciples) THEN s
  ELSE LET id == s.desciples[i].entID IN
       IF ~Has(s.packets, id) THEN getStims_PacketsOnly(s, i + 1)
       ELSE getStims_PacketsOnly(
              [s EXCEPT !.packets =
                          DictSet(@, [At(s.packets, id) EXCEPT
                                        !.stim = [kind |-> "obs", ent |-> id]]),
                        !.log = Append(@, Event("stim", id, None, ""))],
              i + 1)

\* Realm.getStims
RECURSIVE getStims(_, _)
getStims(s, i) ==
  IF s.err # "" \/ i > Len(s.desciples) THEN s
  ELSE LET id == s.desciples[i].entID
           p  == IF Has(s.packets, id) THEN At(s.packets, id) ELSE Packet(id)
       IN  getStims([s EXCEPT !.packets =
                        DictSet(@, [p EXCEPT !.stim = [kind |-> "obs", ent |-> id]]),
                               !.log = Append(@, Event("stim", id, None, ""))],
                    i + 1)

\* Realm.step that leaves the realm as it was when a lookup fails
step_RollsBack(s, dec, doomed, h) ==
  LET s1 == [s EXCEPT !.tick = @ + 1]
      sp == RealmSpawn(s1, h)
      s2 == SpawnerSpawn([sp.s EXCEPT !.iden = sp.iden, !.pop = sp.pop],
                         sp.iden, sp.pop)
      s3 == stepEnts(s2, dec, doomed)
      s4 == stepEnv(s3)
  IN  IF s3.err # "" THEN [s EXCEPT !.err = s3.err, !.iden = sp.iden, !.pop = sp.pop]
      ELSE getStims(s4, 1)

\* Realm.step making its admission after the agents were advanced
step_AdmitLast(s, dec, doomed, h) ==
  LET s1 == [s EXCEPT !.tick = @ + 1]
      sp == RealmSpawn(s1, h)
      s2 == stepEnts([sp.s EXCEPT !.iden = sp.iden, !.pop = sp.pop], dec, doomed)
      s3 == IF s2.err # "" THEN s2 ELSE SpawnerSpawn(s2, sp.iden, sp.pop)
      s4 == stepEnv(s3)
  IN  getStims(s4, 1)

\* Realm.step advancing the world before the agents
step_EnvFirst(s, dec, doomed, h) ==
  LET s1 == [s EXCEPT !.tick = @ + 1]
      sp == RealmSpawn(s1, h)
      s2 == SpawnerSpawn([sp.s EXCEPT !.iden = sp.iden, !.pop = sp.pop],
                         sp.iden, sp.pop)
      s3 == stepEnv(s2)
      s4 == stepEnts(s3, dec, doomed)
  IN  getStims(s4, 1)

\* Realm.step
step(s, dec, doomed, h) ==
  LET s1 == [s EXCEPT !.tick = @ + 1]
      sp == RealmSpawn(s1, h)
      s2 == SpawnerSpawn([sp.s EXCEPT !.iden = sp.iden, !.pop = sp.pop],
                         sp.iden, sp.pop)
      s3 == stepEnts(s2, dec, doomed)
      s4 == stepEnv(s3)
  IN  getStims(s4, 1)

\* ------------------------------------------------------------- inputs
\* sequences of length n over S without repetition (the keys of a dict)
KeySeqs(S, n) == {q \in [1..n -> S] : \A i, j \in 1..n : i # j => q[i] # q[j]}

\* an entity's action maps of at most m entries: action kind -> arguments, at
\* most one entry per kind
AtnMaps(m) == UNION {KeySeqs(Atns, n) : n \in 0..m}

RECURSIVE NActs(_, _)
NActs(f, n) == IF n = 0 THEN 0 ELSE Len(f[n]) + NActs(f, n - 1)

\* the decisions mappings of at most the given size over the identifiers in cands
Decisions(cands, size) ==
  UNION {{[i \in 1..n |-> [entID |-> q[i], atns |-> f[i]]] :
             q \in KeySeqs(cands, n),
             f \in {g \in [1..n -> AtnMaps(size - n)] : n + NActs(g, n) <= size}} :
         n \in 0..size}

\* the size of a decisions mapping: its entities plus their actions
Size(dec) == Len(dec) + NActs([i \in 1..Len(dec) |-> dec[i].atns], Len(dec))

DecKeys(dec) == {dec[i].entID : i \in 1..Len(dec)}

\* ------------------------------------------------------------ actions
NoRet == [status |-> "", stims |-> <<>>, rewards |-> <<>>, dones |-> {}, info |-> None]

Snapshot == [tick |-> tick, entID |-> entID, ents |-> ents, pops |-> pops,
             desciples |-> desciples, tiles |-> tiles, worldSteps |-> worldSteps,
             strHash |-> strHash, issued |-> issued]

NoPre == [tick |-> 0, entID |-> 1, ents |-> 0, pops |-> <<>>, desciples |-> <<>>,
          tiles |-> {}, worldSteps |-> 0, strHash |-> <<>>, issued |-> <<>>]

NoAdm == [iden |-> None, pop |-> None, ok |-> FALSE]

\* the realm r as a record the operations thread through
AsRecord(r) ==
  [tick |-> r.tick, entID |-> r.entID, ents |-> r.ents, pops |-> r.pops,
   desciples |-> r.desciples, tiles |-> r.tiles, worldSteps |-> r.worldSteps,
   strHash |-> r.strHash, issued |-> r.issued, log |-> <<>>, err |-> "",
   iden |-> None, pop |-> None, admitted |-> FALSE,
   dead |-> {}, dones |-> {}, packets |-> <<>>]

Now == AsRecord(Snapshot)

\* what the caller gets: the exception, or step's "Conform to gym" tuple
Result(s) ==
  IF s.err # "" THEN [NoRet EXCEPT !.status = s.err]
  ELSE [status  |-> "ok",
        stims   |-> [i \in 1..Len(s.packets) |-> s.packets[i].stim],
        rewards |-> [i \in 1..Len(s.packets) |-> s.packets[i].reward],
        dones   |-> s.dones,
        info    |-> None]

\* the state a call leaves behind, and what the caller gets
Commit(s, name, dec) ==
  /\ tick' = s.tick
  /\ entID' = s.entID
  /\ ents' = s.ents
  /\ pops' = s.pops
  /\ desciples' = s.desciples
  /\ tiles' = s.tiles
  /\ worldSteps' = s.worldSteps
  /\ strHash' = s.strHash
  /\ issued' = s.issued
  /\ log' = s.log
  /\ op' = name
  /\ decisions' = dec
  /\ pre' = Snapshot
  /\ adm' = [iden |-> s.iden, pop |-> s.pop, ok |-> s.admitted]
  /\ ret' = Result(s)
  /\ phase' = "returned"
  /\ UNCHANGED <<nEnt, nPop, popSz>>

Init ==
  /\ nEnt \in 1..MaxNENT
  /\ nPop \in 1..MaxNPOP
  /\ popSz = nEnt \div nPop
  /\ ents = 0
  /\ pops = <<>>
  /\ desciples = <<>>
  /\ tiles = {}
  /\ entID = 1
  /\ tick = 0
  /\ worldSteps = 0
  /\ strHash = <<>>
  /\ issued = <<>>
  /\ direct = 0
  /\ spent = 0
  /\ phase = "idle"
  /\ op = ""
  /\ decisions = <<>>
  /\ pre = NoPre
  /\ adm = NoAdm
  /\ ret = NoRet
  /\ log = <<>>

\* the entities of dec that the first loop of stepEnts reaches: those before
\* the first identifier that is missing from the entity map d
RECURSIVE Reached(_, _, _)
Reached(dec, d, i) ==
  IF i > Len(dec) \/ ~Has(d, dec[i].entID) THEN {}
  ELSE {dec[i].entID} \cup Reached(dec, d, i + 1)

\* one call of Realm.step. What the entities' own code (ent.step, ent.act) does
\* to the liveness flags is an input: doomed are the entities whose flag it
\* turns false in this tick, each in its own update if that is reached, and
\* any entity once an action is applied
StepCall(name, dec) ==
  \E h \in 0..(nPop - 1) :
    LET s1 == [Now EXCEPT !.tick = @ + 1]
        sp == RealmSpawn(s1, h)
        s2 == SpawnerSpawn(sp.s, sp.iden, sp.pop)
        live == {s2.desciples[i].entID :
                   i \in {j \in 1..Len(s2.desciples) : s2.desciples[j].alive}}
    IN  \E doomed \in SUBSET live :
          /\ \/ doomed \subseteq Reached(dec, s2.desciples, 1)
             \/ /\ DecKeys(dec) \subseteq Keys(s2.desciples)
                /\ Size(dec) > Len(dec)
          /\ Commit(step(Now, dec, doomed, h), name, dec)

Step ==
  /\ phase = "idle"
  /\ tick < MaxTick
  /\ spent < MaxWork
  /\ \E dec \in Decisions(2..(entID + 1), MaxWork - spent - 1) :
       /\ StepCall("step", dec)
       /\ spent' = spent + 1 + Size(dec)
  /\ UNCHANGED direct

\* Realm.step where the Spawner is also used directly
StepLedger ==
  /\ phase = "idle"
  /\ spent < MaxCalls
  /\ \E dec \in Decisions(2..(entID + 1), MaxCalls - spent - 1) :
       /\ StepCall("step", dec)
       /\ spent' = spent + 1 + Size(dec)
  /\ UNCHANGED direct

\* Realm.reset without its assertion on the tick counter
Reset_NoAssert ==
  /\ phase = "idle"
  /\ StepCall("reset", <<>>)
  /\ UNCHANGED <<direct, spent>>

\* Realm.reset
Reset ==
  /\ phase = "idle"
  /\ IF tick = 0
     THEN StepCall("reset", <<>>)
     ELSE Commit([Now EXCEPT !.err = "AssertionError in Realm.reset"], "reset", <<>>)
  /\ UNCHANGED <<direct, spent>>

\* Spawner.spawn called by hand on the realm's spawner
SpawnerSpawnCall ==
  /\ phase = "idle"
  /\ spent < MaxCalls
  /\ direct' = direct + 1
  /\ spent' = spent + 1
  /\ \E iden \in 2..(entID + direct + 1), pop \in 0..(nPop - 1) :
       Commit(SpawnerSpawn([Now EXCEPT !.iden = iden, !.pop = pop], iden, pop),
              "Spawner.spawn", <<>>)

\* Spawner.cull called by hand on the realm's spawner
SpawnerCullCall ==
  /\ phase = "idle"
  /\ spent < MaxCalls
  /\ direct' = direct + 1
  /\ spent' = spent + 1
  /\ \E pop \in 0..(nPop - 1) :
       Commit(SpawnerCull([Now EXCEPT !.pop = pop], pop), "Spawner.cull", <<>>)

\* the caller takes the result of the call
Receive ==
  /\ phase = "returned"
  /\ phase' = "idle"
  /\ op' = ""
  /\ decisions' = <<>>
  /\ pre' = NoPre
  /\ adm' = NoAdm
  /\ ret' = NoRet
  /\ log' = <<>>
  /\ UNCHANGED <<nEnt, nPop, popSz, ents, pops, desciples, tiles, entID, tick,
                 worldSteps, strHash, issued, direct, spent>>

Next == Step \/ Reset \/ Receive

Spec == Init /\ [][Next]_vars

\* the Realm's API together with direct use of its Spawner
NextLedger == StepLedger \/ Reset \/ SpawnerSpawnCall \/ SpawnerCullCall \/ Receive

SpecLedger == Init /\ [][NextLedger]_vars

\* -------------------------------------------------------------- claims
Returned(name) == phase = "returned" /\ op = name

Completed == phase = "returned" /\ op \in {"step", "reset"} /\ ret.status = "ok"

\* the last call ran Realm.step: a step call, or a reset that passed its assertion
Stepped == phase = "returned" /\ (op = "step" \/ (op = "reset" /\ pre.tick = 0))

Issued == {issued[i] : i \in 1..Len(issued)}

\* C1: whatever Spawner.spawn, Spawner.cull, Realm.step and Realm.reset calls
\* were made, every population's count lies in 0..NENT // NPOP, the total
\* count lies in 0..NENT, and no call fails on the assertions at the top of
\* Spawner.spawn.
C1_CountsWithinCaps ==
  /\ \A p \in DOMAIN pops : 0 <= pops[p] /\ pops[p] <= nEnt \div nPop
  /\ 0 <= ents /\ ents <= nEnt
  /\ ret.status # "AssertionError in Spawner.spawn"

\* a step whose admission is refused with the realm full, after the Spawner
\* was used directly as well
C1_Witness ==
  /\ Returned("step") /\ direct > 0
  /\ ~adm.ok /\ ents = nEnt
  /\ \E p \in DOMAIN pops : pops[p] = nEnt \div nPop /\ pops[p] >= 1

\* C2: Spawner.spawn refuses exactly when the total count equals NENT or the
\* target population's count equals NENT // NPOP, and a refused call leaves
\* the entity map, every population's count and the total count as they were.
C2_RefusalExactAndClean ==
  /\ (phase = "returned" /\ op \in {"Spawner.spawn", "step", "reset"} /\ adm.pop # None)
       => (~adm.ok <=> (pre.ents = nEnt
                          \/ PopCount(pre.pops, adm.pop) = nEnt \div nPop))
  /\ (Returned("Spawner.spawn") /\ ~adm.ok)
       => /\ desciples = pre.desciples
          /\ ents = pre.ents
          /\ \A p \in 0..(nPop - 1) : PopCount(pops, p) = PopCount(pre.pops, p)
          /\ ret.status = "ok"

\* NENT = 2, NPOP = 1: two admissions made, the third one refused, counts 2 and 2
C2_Witness ==
  /\ Returned("Spawner.spawn") /\ ~adm.ok
  /\ nEnt = 2 /\ nPop = 1
  /\ Len(desciples) = 2 /\ ents = 2 /\ PopCount(pops, 0) = 2

\* C3: the identifiers Realm.spawn returns are strictly increasing over the
\* realm's lifetime; the identifier of a tick is none of the earlier ones,
\* whether those were admitted, refused or culled since, and every entity in
\* the map carries an identifier that was issued.
C3_IdentifiersIncrease ==
  /\ \A i, j \in 1..Len(issued) : i < j => issued[i] < issued[j]
  /\ Keys(desciples) \subseteq Issued
  /\ (phase = "returned" /\ op \in {"step", "reset"} /\ adm.iden # None)
       => /\ adm.iden = issued[Len(issued)]
          /\ ~Has(pre.desciples, adm.iden)

\* entity 2 was admitted and culled, and the next admission got identifier 3
C3_Witness ==
  /\ Returned("step") /\ adm.ok /\ adm.iden = 3
  /\ popSz >= 1 /\ ~Has(desciples, 2) /\ Has(desciples, 3)

\* C4: after a completed step, the size of dones plus the size of the entity
\* map equals the size of the entity map before the call plus 1 if the tick's
\* admission succeeded.
C4_Conservation ==
  Completed =>
    Cardinality(ret.dones) + Len(desciples)
      = Len(pre.desciples) + (IF adm.ok THEN 1 ELSE 0)

\* a tick that admits one entity and culls another
C4_Witness ==
  /\ Completed /\ adm.ok /\ ret.dones # {}
  /\ Len(pre.desciples) >= 1 /\ Has(desciples, adm.iden)

\* the events of the last call
Events(kind) == {i \in 1..Len(log) : log[i].ev = kind}

\* C5: in one step call, of two applied actions of different priority that
\* belong to different entities, the one with the lower priority number is
\* applied first, whatever the order of the decisions mapping.
C5_AscendingPriority ==
  Returned("step") =>
    \A i, j \in Events("act") :
      (i < j /\ log[i].ent # log[j].ent) => log[i].pri <= log[j].pri

\* the action kinds of atns that have priority p, in the order of the map
OfPriority(atns, p) == SelectSeq(atns, LAMBDA a : Priority(a) = p)

\* C6: the action applied for an entity at a priority is the first action of
\* that priority in the entity's action map; later ones are dropped.
C6_FirstActionKept ==
  Returned("step") =>
    \A i \in Events("act") :
      log[i].atn = OfPriority(At(decisions, log[i].ent).atns, log[i].pri)[1]

\* C7: a reset call succeeds only with the tick counter at 0, which is exactly
\* when no step or reset call has been made before; then its effect and its
\* return value are those of step({}). Any other reset call fails with the
\* restart error and leaves tick, entity map, ledger, grid, world and
\* identifier counter as they were.
C7_ResetOnceOnly ==
  Returned("reset") =>
    /\ (pre.tick = 0) <=> (pre.issued = <<>>)
    /\ ret.status = "ok" => pre.tick = 0
    /\ pre.tick = 0 =>
         LET s == step(AsRecord(pre), <<>>, {}, strHash[pre.entID])
         IN  /\ ret = Result(s)
             /\ Snapshot = [f \in DOMAIN pre |-> s[f]]
    /\ pre.tick # 0 =>
         /\ ret.status = "AssertionError in Realm.reset"
         /\ Snapshot = pre

\* a reset that fails after a tick that admitted an entity
C7_Witness ==
  /\ Returned("reset") /\ pre.tick = 1 /\ Len(pre.desciples) = 1
  /\ ret.status = "AssertionError in Realm.reset"

\* the entity a decision key of the last call stands for
EntOf(id) ==
  IF Has(pre.desciples, id) THEN At(pre.desciples, id) ELSE Player(adm.iden, adm.pop)

\* the entity map as the lookups of the last call's stepEnts found it
Lookup == Keys(pre.desciples) \cup (IF adm.ok THEN {adm.iden} ELSE {})

\* the liveness flag of id is false when the cull scan reads it
DeadAtScan(id) ==
  \/ Has(pre.desciples, id) /\ ~At(pre.desciples, id).alive
  \/ \E i \in Events("die") : log[i].ent = id

\* C8: in a step call that gets past the lookups, every entity that has a
\* decision and whose liveness flag is false after self-step and action
\* application has its serial in dones and is gone from the entity map. A step
\* call aborts with a lookup error exactly when its decisions name an
\* identifier that is not in the entity map when it is looked up (after the
\* tick's admission); that is so for every identifier issued earlier and
\* culled since.
C8_DeadAreDoneAndGone ==
  Stepped =>
    /\ ret.status \in {"ok", "KeyError"}
    /\ ret.status = "KeyError" <=> ~(DecKeys(decisions) \subseteq Lookup)
    /\ \A id \in DecKeys(decisions) :
         /\ (ret.status = "ok" /\ DeadAtScan(id))
              => Serial(EntOf(id)) \in ret.dones /\ ~Has(desciples, id)
         /\ (\E i \in 1..Len(pre.issued) : pre.issued[i] = id) /\ ~Has(pre.desciples, id)
              => ret.status = "KeyError"

\* NENT = NPOP = 1: entity 2 was admitted and culled in tick 1, and a decision
\* names it in tick 2
C8_Witness ==
  /\ Returned("step") /\ nEnt = 1 /\ nPop = 1
  /\ pre.tick = 1 /\ pre.ents = 0 /\ pre.desciples = <<>>
  /\ 2 \in DecKeys(decisions) /\ ret.status = "KeyError"

\* C9: after every completed step call the entity map holds only entities
\* whose liveness flag is true, and no entity whose flag turned false in the
\* tick gets an observation, whether or not it had a decision.
C9_OnlyLiveRemain ==
  Completed =>
    /\ \A i \in 1..Len(desciples) : desciples[i].alive
    /\ \A i \in Events("stim"), j \in Events("die") : log[i].ent # log[j].ent

\* the place of an event's phase in the tick pipeline as the claim has it
ClaimedRank(e) ==
  CASE e.ev = "admit" -> 0 [] e.ev = "step" -> 1 [] e.ev = "act" -> 2
    [] e.ev = "world" -> 3 [] e.ev = "postmortem" -> 4 [] e.ev = "cull" -> 4
    [] e.ev = "stim" -> 5 [] OTHER -> None

\* the place of an event's phase in the tick pipeline
Rank(e) ==
  CASE e.ev = "admit" -> 0 [] e.ev = "step" -> 1 [] e.ev = "act" -> 2
    [] e.ev = "postmortem" -> 3 [] e.ev = "cull" -> 4 [] e.ev = "world" -> 5
    [] e.ev = "stim" -> 6 [] OTHER -> None

Phased == {i \in 1..Len(log) : log[i].ev # "die"}

\* C10 as claimed: in every step call the phases run in the order admit,
\* self-step, apply, advance world, cull, collect observations: the world
\* advances after every action was applied and before the cull scan and the
\* removals, exactly once in a call that completes.
C10_WorldBeforeCull ==
  Stepped =>
    /\ ret.status = "ok" => Cardinality(Events("world")) = 1
    /\ \A i, j \in Phased : i < j => ClaimedRank(log[i]) <= ClaimedRank(log[j])

\* C10: in every step call that completes the phases run in the order admit,
\* self-step, apply, cull scan, removal of the dead, advance world, collect
\* observations, and the world advances exactly once; a call that aborts does
\* not advance the world.
C10_PhaseOrder ==
  Stepped =>
    /\ \A i, j \in Phased : i < j => Rank(log[i]) <= Rank(log[j])
    /\ ret.status = "ok"
         => Cardinality(Events("world")) = 1 /\ worldSteps = pre.worldSteps + 1
    /\ ret.status # "ok"
         => Events("world") = {} /\ worldSteps = pre.worldSteps

\* a tick with an admission, a self-step, an applied action, a removal and an
\* observation
C10_Witness ==
  /\ Completed
  /\ \A k \in {"admit", "step", "act", "postmortem", "cull", "world", "stim"} :
       Events(k) # {}

\* C11: every reward a completed step or reset call returns is the number 0,
\* also for the entities without a decision and the entity admitted in the tick.
C11_RewardsZero ==
  Completed => \A i \in 1..Len(ret.rewards) : ret.rewards[i] = 0

\* the entities the last call removed from the entity map
Culled == (Keys(pre.desciples) \cup (IF adm.ok THEN {adm.iden} ELSE {})) \ Keys(desciples)

\* C12: in every completed step call stimuli and rewards have the same length
\* and entry i of both belongs to the same entity (its reward is the one the
\* code gave that entity); there is exactly one entry per entity that is in the
\* entity map after the cull and none for a culled entity; dones is the set of
\* serials of the entities culled in the tick, and the fourth result is None.
C12_ResultShape ==
  Completed =>
    /\ Len(ret.stims) = Len(ret.rewards)
    /\ Len(ret.stims) = Len(desciples)
    /\ {ret.stims[i].ent : i \in 1..Len(ret.stims)} = Keys(desciples)
    /\ \A i \in 1..Len(ret.stims) :
         /\ ret.stims[i].kind = "obs"
         /\ ret.stims[i].ent \notin Culled
         /\ ret.rewards[i] = IF ret.stims[i].ent \in DecKeys(decisions)
                             THEN reward(ret.stims[i].ent) ELSE None
    /\ Culled = {log[i].ent : i \in Events("cull")}
    /\ ret.dones = {Serial(EntOf(id)) : id \in Culled}
    /\ ret.info = None

\* a tick with decisions for two entities, one of which is culled while the
\* other gets the observation and the reward
C12_Witness ==
  /\ Completed /\ Len(decisions) = 2
  /\ Cardinality(ret.dones) = 1 /\ Len(ret.stims) = 1
  /\ ret.stims[1].ent \in DecKeys(decisions) /\ ret.rewards[1] = 0

\* C13: Spawner.cull(pop) fails on its assertion, changing no count, exactly
\* when the count of pop or the total count is 0 before the call; otherwise it
\* takes 1 from the count of pop and 1 from the total and leaves the count of
\* every other population as it was.
C13_CullExact ==
  Returned("Spawner.cull") =>
    LET failed == PopCount(pre.pops, adm.pop) = 0 \/ pre.ents = 0 IN
    /\ failed <=> ret.status = "AssertionError in Spawner.cull"
    /\ ~failed <=> ret.status = "ok"
    /\ ents = pre.ents - (IF failed THEN 0 ELSE 1)
    /\ \A p \in 0..(nPop - 1) :
         PopCount(pops, p) =
           PopCount(pre.pops, p) - (IF ~failed /\ p = adm.pop THEN 1 ELSE 0)
    /\ desciples = pre.desciples

\* NPOP = 2, one entity in each population, and population 0 is culled
C13_Witness ==
  /\ Returned("Spawner.cull") /\ ret.status = "ok" /\ adm.pop = 0
  /\ nPop = 2 /\ pre.ents = 2 /\ ents = 1
  /\ PopCount(pops, 0) = 0 /\ PopCount(pops, 1) = 1

\* the entities of population p that the last call removed
CulledOf(p) == {id \in Culled : EntOf(id).annID = p}

\* C14: every step call makes exactly one admission attempt, with the
\* identifier generated for the tick and before any agent is stepped. The
\* entity map gains no entity but the admitted one; a successful admission adds
\* that entity and 1 to its population's count and to the total (from which the
\* culls of the same tick take their share); a refusal is no error: the call
\* completes its remaining phases unless its decisions fail a lookup.
C14_OneAdmission ==
  Stepped =>
    LET ok == IF adm.ok THEN 1 ELSE 0 IN
    /\ issued = Append(pre.issued, adm.iden)
    /\ adm.iden = pre.entID + 1 /\ entID = adm.iden
    /\ Cardinality(Events("admit")) = ok
    /\ Keys(desciples) \ Keys(pre.desciples) \subseteq {adm.iden}
    /\ adm.ok =>
         /\ log[1] = Event("admit", adm.iden, adm.pop, "")
         /\ ~Has(pre.desciples, adm.iden)
         /\ adm.iden \notin Culled
              => Has(desciples, adm.iden) /\ At(desciples, adm.iden).annID = adm.pop
    /\ ents = pre.ents + ok - Cardinality(Culled)
    /\ \A p \in 0..(nPop - 1) :
         PopCount(pops, p) = PopCount(pre.pops, p)
                               + (IF p = adm.pop THEN ok ELSE 0)
                               - Cardinality(CulledOf(p))
    /\ (~adm.ok /\ DecKeys(decisions) \subseteq Keys(pre.desciples))
         => /\ ret.status = "ok"
            /\ Events("world") # {}
            /\ Len(ret.stims) = Len(desciples)

\* NENT = 1: the realm is full, the admission of the tick is refused and the
\* tick goes on with the self-step and the observation of the entity there is
C14_Witness ==
  /\ Returned("step") /\ nEnt = 1 /\ ~adm.ok /\ adm.iden = 3
  /\ ret.status = "ok" /\ Events("step") # {} /\ Len(ret.stims) = 1

\* the entities of the events of one kind in the last call, in order
EntsOf(kind) ==
  LET es == SelectSeq(log, LAMBDA e : e.ev = kind)
  IN  [i \in 1..Len(es) |-> es[i].ent]

\* C15: in a step call that passes its lookups the self-stepped entities are
\* exactly the entities with a decision, each once, in the order of the
\* decisions, and every self-step comes before the first applied action. (A
\* call that aborts on a lookup has self-stepped the entities before the
\* missing one, each once, and applied no action.)
C15_SelfStepOnceFirst ==
  Stepped =>
    LET keys == [i \in 1..Len(decisions) |-> decisions[i].entID] IN
    /\ ret.status = "ok" => EntsOf("step") = keys
    /\ Len(EntsOf("step")) <= Len(keys)
    /\ EntsOf("step") = SubSeq(keys, 1, Len(EntsOf("step")))
    /\ \A i \in Events("step"), j \in Events("act") : i < j
    /\ ret.status # "ok" => Events("act") = {}

\* a tick with decisions for two entities, one of them with an action
C15_Witness ==
  /\ Completed /\ Len(decisions) = 2
  /\ Cardinality(Events("step")) = 2 /\ Events("act") # {}

\* the decision entities the scan of the last call marked dead
Marked == {id \in DecKeys(decisions) : DeadAtScan(id)}

\* C16: in a step call that completes, the scan visits every decision entity
\* once, in order, and removes nothing; every removal from the entity map, the
\* grid and the ledger comes after the last visit of the scan, and each entity
\* the scan marked dead is removed exactly once.
C16_MarkThenRemove ==
  Completed =>
    /\ EntsOf("postmortem") = [i \in 1..Len(decisions) |-> decisions[i].entID]
    /\ \A i \in Events("postmortem"), j \in Events("cull") : i < j
    /\ {log[j].ent : j \in Events("cull")} = Marked
    /\ Cardinality(Events("cull")) = Cardinality(Marked)
    /\ \A id \in Marked : ~Has(desciples, id) /\ id \notin tiles
    /\ ents = pre.ents + (IF adm.ok THEN 1 ELSE 0) - Cardinality(Marked)

\* a scan over two decision entities that marks the first one dead and then
\* still finds the second one alive
C16_Witness ==
  /\ Completed /\ Len(decisions) = 2
  /\ Marked = {decisions[1].entID}
  /\ Has(desciples, decisions[2].entID)

\* C17: the population Realm.spawn returns with an identifier is the hash of
\* that identifier's string modulo NPOP: every entity admitted through the
\* Realm is in the population its own identifier hashes to (wherever this
\* process has evaluated that hash).
C17_PopFromOwnIdentifier ==
  \A i \in 1..Len(desciples) :
    desciples[i].entID \in DOMAIN strHash
      => desciples[i].annID = strHash[desciples[i].entID] % nPop

\* C18: a Spawner.spawn call whose identity is already a key of the entity
\* map, made with room in the realm and in the population, fails, and the
\* entity registered under that identity stays as it was.
C18_DuplicateIsFatal ==
  (/\ Returned("Spawner.spawn")
   /\ Has(pre.desciples, adm.iden)
   /\ pre.ents < nEnt /\ PopCount(pre.pops, adm.pop) < nEnt \div nPop)
    => /\ ret.status # "ok"
       /\ desciples = pre.desciples

\* the entities of population p in the entity map
Members(p) == {i \in 1..Len(desciples) : desciples[i].annID = p}

\* C19: as long as the realm is used through step and reset only, the ledger
\* agrees with the entity map: the total count is the number of entities in
\* the map and the count of every population is the number of its entities in
\* the map.
C19_LedgerMatchesMap ==
  /\ ents = Len(desciples)
  /\ \A p \in 0..(nPop - 1) : PopCount(pops, p) = Cardinality(Members(p))
  /\ DOMAIN pops \subseteq 0..(nPop - 1)

\* NPOP = 2: after a tick that culled the entity of one population and
\* admitted an entity to the other
C19_Witness ==
  /\ Completed /\ nPop = 2 /\ adm.ok /\ Culled # {}
  /\ \E id \in Culled : EntOf(id).annID # adm.pop
  /\ ents = 1 /\ PopCount(pops, adm.pop) = 1

\* C20: a step call that aborts on a lookup is not rolled back. The tick
\* counter and the identifier counter have advanced by one, the admission of
\* the tick was made (or refused on the caps) and stays, the entities before
\* the missing one in the order of the decisions were self-stepped, each once,
\* and those that died of it stay dead in the map; nothing was applied,
\* culled or advanced in the world. So the tick counter is the number of step
\* calls started and never goes down, and once it is 1 or more, after an
\* aborted call too, reset fails and changes nothing.
C20_NotRolledBack ==
  [][/\ (Stepped /\ ret.status = "KeyError" =>
           LET n  == Cardinality(Reached(decisions, desciples, 1))
               ok == IF adm.ok THEN 1 ELSE 0
           IN  /\ tick = pre.tick + 1
               /\ entID = pre.entID + 1 /\ adm.iden = entID
               /\ adm.ok <=> /\ pre.ents < nEnt
                             /\ PopCount(pre.pops, adm.pop) < popSz
               /\ adm.ok => /\ Has(desciples, adm.iden)
                            /\ At(desciples, adm.iden).annID = adm.pop
               /\ Keys(desciples) = Lookup
               /\ ents = pre.ents + ok
               /\ PopCount(pops, adm.pop) = PopCount(pre.pops, adm.pop) + ok
               /\ n < Len(decisions)
               /\ EntsOf("step") = [i \in 1..n |-> decisions[i].entID]
               /\ \A i \in Events("die") : ~At(desciples, log[i].ent).alive
               /\ Events("act") = {} /\ Events("world") = {} /\ Events("cull") = {}
               /\ worldSteps = pre.worldSteps)'
     /\ (tick = Len(issued))'
     /\ tick' >= tick
     /\ (phase = "idle" /\ tick >= 1 /\ op' = "reset")
          => /\ ret'.status = "AssertionError in Realm.reset"
             /\ UNCHANGED <<tick, entID, ents, pops, desciples, tiles, worldSteps>>
    ]_vars

\* a call aborts on the identifier of an entity culled earlier, after the
\* admission of the tick was made and after the self-step of an entity that
\* died of it
C20_Witness ==
  /\ Returned("step") /\ ret.status = "KeyError"
  /\ adm.ok /\ Has(desciples, adm.iden)
  /\ EntsOf("step") # <<>>
  /\ \E i \in Events("die") : ~At(desciples, log[i].ent).alive
  /\ tick = 3

====
